---- MODULE Spec2Model ----
(***************************************************************************)
(* csv_to_json_parser.py: a one-shot script that reads initial_data.csv    *)
(* through csv.DictReader, turns every row into a record of 18 keys and    *)
(* writes the list of records with json.dump to src/data/initial_data.json *)
(*                                                                         *)
(* Text is modelled character by character: a Python str is the sequence   *)
(* of its code points (<<52, 50>> is "42"; Text(<<"4", "2">>) writes it).  *)
(* Column names and record keys are TLA+ strings.  A Python int is its     *)
(* sign and its decimal digits, so that it has no largest value.           *)
(***************************************************************************)
EXTENDS Integers, Sequences, FiniteSets, TLC

VARIABLES
  csvExists,   \* initial_data.csv exists
  fieldnames,  \* its first line, split into column names
  lines,       \* the lines after it that the reader yields, each split into
               \* cells ( <<>> is a blank line)
  readError,   \* what ends them: "" for the end of the file, else the
               \* exception the reader raises there
  outDirExists,\* the directory src/data exists
  outFile,     \* src/data/initial_data.json: [exists, text]
  outBuf,      \* the text written to json_file that waits in its buffers
  pc,          \* position of the script
  inOpen,      \* the input file object f is open
  outOpen,     \* the output file object json_file is open
  pos,         \* number of lines the reader has consumed
  data,        \* the list data
  stdout,      \* what print has written in this run
  err,         \* the exception that ended this run, "" if none
  abortedAt,   \* the statement that raised it, "" if none
  run,         \* number of the current invocation
  outAtStart,  \* outFile as it was when this invocation started
  prev         \* outcome of the previous invocation

vars == <<csvExists, fieldnames, lines, readError, outDirExists, outFile, outBuf, pc,
          inOpen, outOpen, pos, data, stdout, err, abortedAt, run, outAtStart, prev>>

(***************************************************************************)
(* Characters and small helpers                                            *)
(***************************************************************************)
\* the printable ASCII characters from the blank (code point 32) to "_" (95)
\* and from "a" (97) to "~" (126); a TLA+ string cannot hold the one between
PrintableLow ==
  <<" ", "!", "\"", "#", "$", "%", "&", "'", "(", ")", "*", "+", ",", "-", ".", "/",
    "0", "1", "2", "3", "4", "5", "6", "7", "8", "9", ":", ";", "<", "=", ">", "?",
    "@", "A", "B", "C", "D", "E", "F", "G", "H", "I", "J", "K", "L", "M", "N", "O",
    "P", "Q", "R", "S", "T", "U", "V", "W", "X", "Y", "Z", "[", "\\", "]", "^", "_">>
PrintableHigh ==
  <<"a", "b", "c", "d", "e", "f", "g", "h", "i", "j", "k", "l", "m", "n", "o",
    "p", "q", "r", "s", "t", "u", "v", "w", "x", "y", "z", "{", "|", "}", "~">>

\* the code point of a printable ASCII character
ord(ch) ==
  IF \E i \in 1..Len(PrintableLow) : PrintableLow[i] = ch
  THEN 31 + (CHOOSE i \in 1..Len(PrintableLow) : PrintableLow[i] = ch)
  ELSE 96 + (CHOOSE i \in 1..Len(PrintableHigh) : PrintableHigh[i] = ch)

\* the str written as a sequence of printable ASCII characters
Text(chars) == [i \in 1..Len(chars) |-> ord(chars[i])]

\* no code point: what stands at an index past the end of a str
NoChar == 0 - 1

\* Python's None, as a value that is no str: its only element is no code point
None == <<NoChar>>

Blank == ord(" ")
Hyphen == ord("-")
Colon == ord(":")
Plus == ord("+")
Point == ord(".")
Underscore == ord("_")
Zero == ord("0")
LetterE == ord("e")
LetterT == ord("T")
LetterZ == ord("Z")
Quote == ord("\"")
Backslash == ord("\\")
Newline == 10

\* the ASCII digits a to b: the regex class [a-b]
AsciiDigits(a, b) == (Zero + a)..(Zero + b)

\* the code point of the digit 0 of every script: the characters
\* of Unicode category Nd come in runs of ten, 0 to 9, one run per script
DecimalZeros ==
  {48, 1632, 1776, 1984, 2406, 2534, 2662, 2790, 2918, 3046,
   3174, 3302, 3430, 3558, 3664, 3792, 3872, 4160, 4240, 6112,
   6160, 6470, 6608, 6784, 6800, 6992, 7088, 7232, 7248, 42528,
   43216, 43264, 43472, 43504, 43600, 44016, 65296, 66720, 68912, 69734,
   69872, 69942, 70096, 70384, 70736, 70864, 71248, 71360, 71472, 71904,
   72016, 72784, 73040, 73120, 92768, 92864, 93008, 120782, 120792, 120802,
   120812, 120822, 123200, 123632, 125264, 130032}

\* the decimal digits: what the regex class \d matches in a str, and what
\* int() and float() read as a digit
Digits == UNION {z..(z + 9) : z \in DecimalZeros}

\* the value of a decimal digit of any script
DigitVal(c) == c - (CHOOSE z \in DecimalZeros : c \in z..(z + 9))

\* the ASCII digit of a value
DigitChar(n) == Zero + n

\* the whitespace of str: what the regex class \s matches in a str pattern
\* (tab to carriage return, the four separators 28 to 31, the blank, and
\* the blanks outside ASCII)
Whitespace ==
  (9..13) \cup (28..31) \cup {32, 133, 160, 5760} \cup (8192..8202)
    \cup {8232, 8233, 8239, 8287, 12288}

\* the whitespace float() strips: the ASCII separators 28 to 31 are none
FloatWhitespace == Whitespace \ (28..31)

Range(s) == {s[i] : i \in DOMAIN s}
Max(S) == CHOOSE m \in S : \A n \in S : n <= m
Min(S) == CHOOSE m \in S : \A n \in S : m <= n

\* F(x), with x evaluated once and bound to its value
Bind(x, F(_)) == CHOOSE r \in {F(v) : v \in {x}} : TRUE

\* the values of a sequence of digits
DigitVals(s) == [i \in 1..Len(s) |-> DigitVal(s[i])]

RECURSIVE NatOf(_, _)
\* the number the first n of the digit values ds spell
NatOf(ds, n) == IF n = 0 THEN 0 ELSE 10 * NatOf(ds, n - 1) + ds[n]

\* int("0042") = 42 for a text of a few digits; the empty text counts as 0
DigitsToInt(s) == Bind(DigitVals(s), LAMBDA ds : NatOf(ds, Len(ds)))

\* the number of decimal digits of a natural number below 2^31
NumDigits(n) ==
  IF n >= 10^9 THEN 10
  ELSE CHOOSE k \in 1..9 : n < 10^k /\ (k = 1 \/ n >= 10^(k - 1))

\* the decimal digits of a natural number, as str(n) gives them
NatToDigits(n) ==
  [i \in 1..NumDigits(n) |-> DigitChar((n \div 10^(NumDigits(n) - i)) % 10)]

\* "%0wd" % n
ZeroPad(n, w) ==
  LET ds == NatToDigits(n)
  IN  IF Len(ds) >= w THEN ds ELSE [i \in 1..(w - Len(ds)) |-> Zero] \o ds

(***************************************************************************)
(* datetime.strptime(raw_date, "%Y-%m-%d %H:%M") and isoformat()           *)
(***************************************************************************)
\* the character at index i, NoChar past either end
At(s, i) == IF i \in 1..Len(s) THEN s[i] ELSE NoChar

\* length of the text the directive %m matches at index i: 1[0-2]|0[1-9]|[1-9]
MatchMonth(s, i) ==
  IF At(s, i) = Zero + 1 /\ At(s, i + 1) \in AsciiDigits(0, 2) THEN 2
  ELSE IF At(s, i) = Zero /\ At(s, i + 1) \in AsciiDigits(1, 9) THEN 2
  ELSE IF At(s, i) \in AsciiDigits(1, 9) THEN 1
  ELSE 0

\* %d: 3[0-1]|[1-2]\d|0[1-9]|[1-9]| [1-9]
MatchDay(s, i) ==
  IF At(s, i) = Zero + 3 /\ At(s, i + 1) \in AsciiDigits(0, 1) THEN 2
  ELSE IF At(s, i) \in AsciiDigits(1, 2) /\ At(s, i + 1) \in Digits THEN 2
  ELSE IF At(s, i) = Zero /\ At(s, i + 1) \in AsciiDigits(1, 9) THEN 2
  ELSE IF At(s, i) \in AsciiDigits(1, 9) THEN 1
  ELSE IF At(s, i) = Blank /\ At(s, i + 1) \in AsciiDigits(1, 9) THEN 2
  ELSE 0

\* MatchHour for the 12-hour directive %I: 1[0-2]|0[1-9]|[1-9]
MatchHour_I(s, i) == MatchMonth(s, i)

\* %H: 2[0-3]|[0-1]\d|\d
MatchHour(s, i) ==
  IF At(s, i) = Zero + 2 /\ At(s, i + 1) \in AsciiDigits(0, 3) THEN 2
  ELSE IF At(s, i) \in AsciiDigits(0, 1) /\ At(s, i + 1) \in Digits THEN 2
  ELSE IF At(s, i) \in Digits THEN 1
  ELSE 0

\* %M: [0-5]\d|\d
MatchMinute(s, i) ==
  IF At(s, i) \in AsciiDigits(0, 5) /\ At(s, i + 1) \in Digits THEN 2
  ELSE IF At(s, i) \in Digits THEN 1
  ELSE 0

\* the index after the run of whitespace that starts at i (i itself if none)
SkipSpace(s, i) ==
  IF i > Len(s) THEN i
  ELSE CHOOSE j \in i..(Len(s) + 1) :
         /\ At(s, j) \notin Whitespace
         /\ \A k \in i..(j - 1) : At(s, k) \in Whitespace

\* int() of a matched day: int() strips the blank the text may start with
DayVal(txt) == IF txt[1] = Blank THEN DigitsToInt(Tail(txt)) ELSE DigitsToInt(txt)

IsLeap(y) == (y % 4 = 0) /\ ((y % 100 # 0) \/ (y % 400 = 0))

DaysInMonth(y, m) ==
  IF m = 2 THEN (IF IsLeap(y) THEN 29 ELSE 28)
  ELSE IF m \in {4, 6, 9, 11} THEN 30
  ELSE 31

NoDate == [ok |-> FALSE, year |-> 0, month |-> 0, day |-> 0, hour |-> 0, minute |-> 0]

\* the lengths of the texts %m, %d, %H and %M match in s and the indexes
\* where they start, once s matches the regex the format compiles to,
\*   \d\d\d\d - %m - %d \s+ %H : %M   and nothing is left over
MatchFormat(s) ==
  Bind(MatchMonth(s, 6), LAMBDA mlen :
    Bind(MatchDay(s, 6 + mlen + 1), LAMBDA dlen :
      Bind(SkipSpace(s, 6 + mlen + 1 + dlen), LAMBDA hi :
        Bind(MatchHour(s, hi), LAMBDA hlen :
          Bind(MatchMinute(s, hi + hlen + 1), LAMBDA nlen :
            [mi |-> 6, mlen |-> mlen,
             di |-> 6 + mlen + 1, dlen |-> dlen,
             hi |-> hi, hlen |-> hlen,
             ni |-> hi + hlen + 1, nlen |-> nlen,
             matched |->
               /\ \A i \in 1..4 : At(s, i) \in Digits
               /\ At(s, 5) = Hyphen
               /\ mlen > 0
               /\ At(s, 6 + mlen) = Hyphen
               /\ dlen > 0
               /\ hi > 6 + mlen + 1 + dlen
               /\ hlen > 0
               /\ At(s, hi + hlen) = Colon
               /\ nlen > 0
               /\ hi + hlen + 1 + nlen = Len(s) + 1])))))  \* else "unconverted data remains"

\* the parsed date, after the range checks of the datetime constructor
strptime(raw) ==
  IF raw = None THEN NoDate      \* TypeError: strptime() argument 1 must be str
  ELSE
    Bind(raw, LAMBDA s :
      Bind(MatchFormat(s), LAMBDA f :
        IF ~f.matched THEN NoDate
        ELSE
          Bind([year   |-> DigitsToInt(SubSeq(s, 1, 4)),
                month  |-> DigitsToInt(SubSeq(s, f.mi, f.mi + f.mlen - 1)),
                day    |-> DayVal(SubSeq(s, f.di, f.di + f.dlen - 1)),
                hour   |-> DigitsToInt(SubSeq(s, f.hi, f.hi + f.hlen - 1)),
                minute |-> DigitsToInt(SubSeq(s, f.ni, f.ni + f.nlen - 1))],
               LAMBDA t :
            IF t.year >= 1 /\ t.day <= DaysInMonth(t.year, t.month)
            THEN [ok |-> TRUE, year |-> t.year, month |-> t.month, day |-> t.day,
                  hour |-> t.hour, minute |-> t.minute]
            ELSE NoDate)))

\* datetime.isoformat() of a parsed date: seconds are always 00
isoformat(t) ==
  ZeroPad(t.year, 4) \o <<Hyphen>> \o ZeroPad(t.month, 2) \o <<Hyphen>> \o ZeroPad(t.day, 2)
    \o <<LetterT>> \o ZeroPad(t.hour, 2) \o <<Colon>> \o ZeroPad(t.minute, 2)
    \o <<Colon, Zero, Zero>>

\* lines 38-43: the value of record["createDate"] for the raw cell
createDate(raw_date) ==
  Bind(strptime(raw_date), LAMBDA parsed_date :
    IF parsed_date.ok THEN isoformat(parsed_date) \o <<LetterZ>> ELSE <<>>)

(***************************************************************************)
(* int(float(text)): the numeral grammar of float(), the rounding of the   *)
(* numeral to the nearest IEEE-754 double, and the truncation of int().    *)
(* A natural number is the sequence of its decimal digit values, most      *)
(* significant first, <<0>> for zero, so that it has no largest value.     *)
(***************************************************************************)
\* float() drops the whitespace at both ends of the text
StripSpace(s) ==
  IF \A i \in 1..Len(s) : s[i] \in FloatWhitespace THEN <<>>
  ELSE LET a == CHOOSE i \in 1..Len(s) :
                  s[i] \notin FloatWhitespace /\ \A k \in 1..(i - 1) : s[k] \in FloatWhitespace
           b == CHOOSE i \in 1..Len(s) :
                  s[i] \notin FloatWhitespace /\ \A k \in (i + 1)..Len(s) : s[k] \in FloatWhitespace
       IN  SubSeq(s, a, b)

\* an underscore is allowed only between two digits
UnderscoresOk(s) ==
  \A i \in 1..Len(s) :
    s[i] = Underscore => (At(s, i - 1) \in Digits /\ At(s, i + 1) \in Digits)

RemoveUnderscores(s) == SelectSeq(s, LAMBDA c : c # Underscore)

\* the index after the run of digits that starts at i (i itself if none)
SkipDigits(s, i) ==
  IF i > Len(s) THEN i
  ELSE CHOOSE j \in i..(Len(s) + 1) :
         /\ At(s, j) \notin Digits
         /\ \A k \in i..(j - 1) : At(s, k) \in Digits

\* the lower-case letter of an ASCII capital; float() compares the words
\* inf, infinity and nan and the letter e without regard to case
Lower(c) == IF c \in 65..90 THEN c + 32 ELSE c

LowerSeq(s) == [i \in 1..Len(s) |-> Lower(s[i])]

\* ds without the zeros in front of its first other digit
StripLeadingZeros(ds) ==
  IF \A i \in 1..Len(ds) : ds[i] = 0 THEN <<>>
  ELSE SubSeq(ds, CHOOSE i \in 1..Len(ds) : ds[i] # 0 /\ \A k \in 1..(i - 1) : ds[k] = 0,
              Len(ds))

Zeros(n) == [i \in 1..n |-> 0]

\* half of the decimal fraction 0.d1 d2 ... dm; the fractions used here end
\* in 5, so the result has one digit more
Halve(ds) ==
  [i \in 1..(Len(ds) + 1) |->
     LET carry == IF i > 1 THEN ds[i - 1] % 2 ELSE 0
         d     == IF i <= Len(ds) THEN ds[i] ELSE 0
     IN  5 * carry + d \div 2]

RECURSIVE HalveTimes(_, _)
\* ds halved n times (the set binds each intermediate result to its value)
HalveTimes(ds, n) ==
  IF n = 0 THEN ds
  ELSE CHOOSE r \in {HalveTimes(h, n - 1) : h \in {Halve(ds)}} : TRUE

\* Pow2Neg[k]: the k decimal digits of 2^-k
Pow2Neg == [k \in 1..54 |-> HalveTimes(<<5>>, k - 1)]

\* the k decimal digits of 1 - 2^-k
OneMinusPow2Neg(k) ==
  [i \in 1..k |-> IF i < k THEN 9 - Pow2Neg[k][i] ELSE 10 - Pow2Neg[k][i]]

\* 0.fs >= 0.ts, both given by their decimal digits
FracGeq(fs, ts) ==
  LET n    == Max({Len(fs), Len(ts)})
      f(i) == IF i <= Len(fs) THEN fs[i] ELSE 0
      t(i) == IF i <= Len(ts) THEN ts[i] ELSE 0
  IN  \/ \A i \in 1..n : f(i) = t(i)
      \/ \E i \in 1..n : f(i) > t(i) /\ \A k \in 1..(i - 1) : f(k) = t(k)

\* a < b for two naturals given by their digits
Less(a, b) ==
  \/ Len(a) < Len(b)
  \/ /\ Len(a) = Len(b)
     /\ \E i \in 1..Len(a) : a[i] < b[i] /\ \A k \in 1..(i - 1) : a[k] = b[k]

\* a + 1
Inc(a) ==
  IF \A i \in 1..Len(a) : a[i] = 9 THEN <<1>> \o Zeros(Len(a))
  ELSE LET j == CHOOSE i \in 1..Len(a) : a[i] # 9 /\ \A k \in (i + 1)..Len(a) : a[k] = 9
       IN  [i \in 1..Len(a) |-> IF i < j THEN a[i] ELSE IF i = j THEN a[i] + 1 ELSE 0]

\* a \div 2; the quotient of a number that starts with 1 is a digit shorter
HalveInt(a) ==
  IF a[1] < 2 /\ Len(a) > 1
  THEN [i \in 1..(Len(a) - 1) |-> (a[i + 1] + 10 * (a[i] % 2)) \div 2]
  ELSE [i \in 1..Len(a) |-> (a[i] + 10 * (IF i > 1 THEN a[i - 1] % 2 ELSE 0)) \div 2]

\* 2 * a
Double(a) ==
  LET d == [i \in 1..Len(a) |->
              (2 * a[i] + (IF i < Len(a) /\ a[i + 1] >= 5 THEN 1 ELSE 0)) % 10]
  IN  IF a[1] >= 5 THEN <<1>> \o d ELSE d

RECURSIVE DoubleFew(_, _)
\* a * 2^n, for a few n (the set binds each intermediate result to its value)
DoubleFew(a, n) ==
  IF n = 0 THEN a
  ELSE CHOOSE r \in {DoubleFew(d, n - 1) : d \in {Double(a)}} : TRUE

RECURSIVE DoubleTimes(_, _)
\* a * 2^n, the doublings taken 32 at a time to keep the recursion shallow
DoubleTimes(a, n) ==
  IF n <= 32 THEN DoubleFew(a, n)
  ELSE CHOOSE r \in {DoubleTimes(d, n - 32) : d \in {DoubleFew(a, 32)}} : TRUE

\* Pow2[k]: the digits of 2^k, up to the 2^53 where the doubles stop holding
\* every integer
Pow2 == [k \in 0..53 |-> DoubleTimes(<<1>>, k)]

\* the number of bits of a natural below 2^52
BitLen(n) == CHOOSE b \in 0..52 : Less(n, Pow2[b]) /\ (b = 0 \/ ~Less(n, Pow2[b - 1]))

RECURSIVE ShiftSome(_, _, _, _, _)
\* q halved until it has 53 bits, or n times if that comes first: the
\* halved number, whether what was cut off reaches half a unit of its last
\* place (half) and something beyond that half (sticky), and the number s
\* of bits cut off
ShiftSome(q, half, sticky, s, n) ==
  IF n = 0 \/ Less(q, Pow2[53]) THEN [q |-> q, half |-> half, sticky |-> sticky, s |-> s]
  ELSE CHOOSE r \in {ShiftSome(h, odd, st, s + 1, n - 1) :
                       h \in {HalveInt(q)}, odd \in {q[Len(q)] % 2 = 1},
                       st \in {sticky \/ half}} : TRUE

RECURSIVE ShiftRound(_, _, _, _)
\* q halved until it has 53 bits, the significand of the double; the
\* halvings are taken 32 at a time to keep the recursion shallow
ShiftRound(q, half, sticky, s) ==
  IF Less(q, Pow2[53]) THEN [q |-> q, half |-> half, sticky |-> sticky, s |-> s]
  ELSE CHOOSE r \in {ShiftRound(t.q, t.half, t.sticky, t.s) :
                       t \in {ShiftSome(q, half, sticky, s, 32)}} : TRUE

\* TruncNearestDouble with round() in place of int(): half and more goes up
TruncNearestDouble_round(n, frac) ==
  [inf |-> FALSE, mag |-> IF frac # <<>> /\ frac[1] >= 5 THEN Inc(n) ELSE n]

\* int(x) for the double x nearest to n + 0.frac, n and frac given by their
\* digits: [inf, mag], inf when x is infinite, else the digits of int(x).
\* Below 2^52 both n and n + 1 are doubles, and the nearest double is n + 1
\* exactly when 0.frac reaches the midpoint between n + 1 and the double
\* just below it, which lies 2^(b-54) under n + 1 for an n of b bits; a tie
\* goes to n + 1, whose significand is even.  From 2^52 on the doubles are
\* integers: n is cut to its 53 leading bits, rounded to nearest, a tie to
\* even, and is infinite from 2^1024 on.
TruncNearestDouble(n, frac) ==
  IF Less(n, Pow2[52]) THEN
    Bind(OneMinusPow2Neg(54 - BitLen(n)), LAMBDA mid :
      [inf |-> FALSE, mag |-> IF FracGeq(frac, mid) THEN Inc(n) ELSE n])
  ELSE
    Bind(ShiftRound(n,
                    frac # <<>> /\ frac[1] >= 5,
                    \E i \in 1..Len(frac) : frac[i] # 0 /\ ~(i = 1 /\ frac[1] = 5),
                    0),
         LAMBDA r :
      Bind(IF r.half /\ (r.sticky \/ r.q[Len(r.q)] % 2 = 1) THEN Inc(r.q) ELSE r.q,
           LAMBDA m :
        IF r.s > 971 \/ (r.s = 971 /\ m = Pow2[53])
        THEN [inf |-> TRUE, mag |-> <<0>>]
        ELSE [inf |-> FALSE, mag |-> DoubleTimes(m, r.s)]))

\* the int of a sign and of the digits of a magnitude; there is no -0
Integer(neg, mag) == [neg |-> neg /\ mag # <<0>>, mag |-> mag]

FloatError(e) == [ok |-> FALSE, exc |-> e, val |-> Integer(FALSE, <<0>>)]
FloatInt(v) == [ok |-> TRUE, exc |-> "", val |-> v]

\* the parts of a numeral t (stripped, without underscores): where its
\* digits, fraction and exponent start and end, and whether it is one
ScanFloat(t) ==
  Bind(IF At(t, 1) \in {Plus, Hyphen} THEN 2 ELSE 1, LAMBDA i0 :
    Bind(SkipDigits(t, i0), LAMBDA ie :                    \* end of the integer digits
      Bind(IF At(t, ie) = Point THEN ie + 1 ELSE ie, LAMBDA fs :
        Bind(SkipDigits(t, fs), LAMBDA fe :                \* end of the fraction digits
          Bind(IF At(t, fe + 1) \in {Plus, Hyphen} THEN fe + 2 ELSE fe + 1, LAMBDA xs :
            Bind(SkipDigits(t, xs), LAMBDA xe :            \* end of the exponent digits
              [neg   |-> At(t, 1) = Hyphen,
               word  |-> LowerSeq(SubSeq(t, i0, Len(t))),
               ipart |-> DigitVals(SubSeq(t, i0, ie - 1)),
               fpart |-> DigitVals(SubSeq(t, fs, fe - 1)),
               hasE  |-> Lower(At(t, fe)) = LetterE,
               xneg  |-> At(t, fe + 1) = Hyphen,
               xpart |-> DigitVals(SubSeq(t, xs, xe - 1)),
               wellFormed |->
                 /\ (ie - i0) + (fe - fs) > 0
                 /\ IF Lower(At(t, fe)) = LetterE THEN xe > xs /\ xe = Len(t) + 1
                    ELSE fe = Len(t) + 1]))))))

\* the exponent of a scanned numeral; one of more than six digits counts as
\* a million, which no cell the reader yields has the digits to balance
Exponent(p) ==
  IF ~p.hasE THEN 0
  ELSE Bind(StripLeadingZeros(p.xpart), LAMBDA xd :
         Bind(IF Len(xd) > 6 THEN 10^6 ELSE NatOf(xd, Len(xd)), LAMBDA x :
           IF p.xneg THEN 0 - x ELSE x))

\* the words float() reads as numbers that are no numerals
InfWords == {Text(<<"i", "n", "f">>), Text(<<"i", "n", "f", "i", "n", "i", "t", "y">>)}
NanWord == Text(<<"n", "a", "n">>)

\* int() of the float whose numeral was scanned into p
IntOfScanned(p) ==
  IF p.word \in InfWords
    THEN FloatError("OverflowError")   \* cannot convert float infinity to integer
  ELSE IF p.word = NanWord
    THEN FloatError("ValueError")      \* cannot convert float NaN to integer
  ELSE IF ~p.wellFormed
    THEN FloatError("ValueError")      \* could not convert string to float
  ELSE
    Bind(StripLeadingZeros(p.ipart \o p.fpart), LAMBDA all :
      \* the value is 0.all * 10^point
      Bind(Len(p.ipart) - (Len(p.ipart \o p.fpart) - Len(all)) + Exponent(p),
           LAMBDA point :
        IF all = <<>> THEN FloatInt(Integer(FALSE, <<0>>))
        ELSE IF point > 309 THEN FloatError("OverflowError")
        ELSE IF point < 0 THEN FloatInt(Integer(FALSE, <<0>>))
        ELSE
          Bind(TruncNearestDouble(
                 IF point = 0 THEN <<0>>
                 ELSE IF point <= Len(all) THEN SubSeq(all, 1, point)
                 ELSE all \o Zeros(point - Len(all)),
                 SubSeq(all, point + 1, Len(all))),
               LAMBDA x :
            IF x.inf THEN FloatError("OverflowError")
            ELSE FloatInt(Integer(p.neg, x.mag)))))

\* int(float(text)) for a str: [ok, exc, val].  float() checks and drops the
\* underscores, then strips the whitespace at both ends
IntOfFloatStr(text) ==
  IF ~UnderscoresOk(text)
    THEN FloatError("ValueError")    \* could not convert string to float
  ELSE Bind(ScanFloat(StripSpace(RemoveUnderscores(text))), LAMBDA p : IntOfScanned(p))

(***************************************************************************)
(* csv.DictReader: one dict per non-blank line                             *)
(***************************************************************************)
\* dict(zip(fieldnames, line)), restval None for the names a short line
\* leaves without a cell; the cells of a long line past the last name go
\* under the key None, which the script never reads, and are left out.
\* A name that occurs twice keeps the cell of its last occurrence.
DictRow(names, line) ==
  [key \in Range(names) |->
     LET last == Max({i \in 1..Len(names) : names[i] = key})
     IN  IF last <= Len(line) THEN line[last] ELSE None]

\* the index of the first non-blank line after line p, 0 if there is none
NextRowIndex(ls, p) ==
  IF \E i \in (p + 1)..Len(ls) : ls[i] # <<>>
  THEN CHOOSE i \in (p + 1)..Len(ls) :
         ls[i] # <<>> /\ \A k \in (p + 1)..(i - 1) : ls[k] = <<>>
  ELSE 0

(***************************************************************************)
(* Lines 15-43: the record of one row                                      *)
(***************************************************************************)
\* row.get(key, default)
get(row, key, default) == IF key \in DOMAIN row THEN row[key] ELSE default

\* bool(v) for a str or None
bool(v) == v # None /\ v # <<>>

\* StrField without the "or": the None of a short line gets through
StrField_noOr(row, key) == get(row, key, <<>>)

\* row.get(key, "") or ""
StrField(row, key) ==
  LET v == get(row, key, <<>>) IN IF bool(v) THEN v ELSE <<>>

\* isComplete with "or" in place of "and"
isComplete_or(row) ==
  bool(get(row, "Company Name", <<>>)) \/ bool(get(row, "Your Industry", <<>>))

\* bool(row.get("Company Name", "")) and bool(row.get("Your Industry", ""))
isComplete(row) ==
  bool(get(row, "Company Name", <<>>)) /\ bool(get(row, "Your Industry", <<>>))

\* int(float(row.get("Number of Form Submissions", 0) or 0)): [ok, exc, val]
formSubmissions(row) ==
  IF "Number of Form Submissions" \in DOMAIN row
       /\ bool(row["Number of Form Submissions"])
  THEN IntOfFloatStr(row["Number of Form Submissions"])
  ELSE FloatInt(Integer(FALSE, <<0>>))

\* the keys of a record, in the order the dict literal inserts them
KeyOrder ==
  <<"id", "firstName", "lastName", "email", "phone", "company", "industry",
    "state", "createDate", "trafficSource", "trafficSourceDetail",
    "originalTrafficSource", "formType", "isComplete", "recordSource",
    "message", "leadStatus", "formSubmissions">>

\* lines 16-32: the keys that hold a cell as it is, and the column of each
KeyColumn ==
  [id                    |-> "Record ID",
   firstName             |-> "First Name",
   lastName              |-> "Last Name",
   email                 |-> "Email",
   phone                 |-> "Phone Number",
   company               |-> "Company Name",
   industry              |-> "Your Industry",
   state                 |-> "State/Region",
   trafficSource         |-> "Latest Traffic Source",
   trafficSourceDetail   |-> "Latest Traffic Source Drill-Down 1",
   originalTrafficSource |-> "Original Traffic Source",
   formType              |-> "Record source detail 1",
   recordSource          |-> "Record source",
   message               |-> "Message",
   leadStatus            |-> "Lead Status"]

PlainKeys == DOMAIN KeyColumn

\* Record with line 41 storing the date under a misspelt key
Record_typoKey(row) ==
  LET keys == {KeyOrder[i] : i \in 1..Len(KeyOrder)}
      date == createDate(get(row, "Create Date", <<>>))
      rec  == [k \in keys \cup (IF date # <<>> THEN {"createdDate"} ELSE {}) |->
                 IF k \in PlainKeys THEN StrField(row, KeyColumn[k])
                 ELSE IF k = "isComplete" THEN isComplete(row)
                 ELSE IF k = "formSubmissions" THEN formSubmissions(row).val
                 ELSE IF k = "createdDate" THEN date
                 ELSE <<>>]
  IN  rec

\* the record built from a row whose form-submission cell converts
Record(row) ==
  [id                    |-> StrField(row, "Record ID"),
   firstName             |-> StrField(row, "First Name"),
   lastName              |-> StrField(row, "Last Name"),
   email                 |-> StrField(row, "Email"),
   phone                 |-> StrField(row, "Phone Number"),
   company               |-> StrField(row, "Company Name"),
   industry              |-> StrField(row, "Your Industry"),
   state                 |-> StrField(row, "State/Region"),
   createDate            |-> createDate(get(row, "Create Date", <<>>)),
   trafficSource         |-> StrField(row, "Latest Traffic Source"),
   trafficSourceDetail   |-> StrField(row, "Latest Traffic Source Drill-Down 1"),
   originalTrafficSource |-> StrField(row, "Original Traffic Source"),
   formType              |-> StrField(row, "Record source detail 1"),
   isComplete            |-> isComplete(row),
   recordSource          |-> StrField(row, "Record source"),
   message               |-> StrField(row, "Message"),
   leadStatus            |-> StrField(row, "Lead Status"),
   formSubmissions       |-> formSubmissions(row).val]

\* the exception the body of the loop raises on a row, "" if none: ValueError
\* or OverflowError from line 33; lines 38-43 catch their own
RowError(row) == formSubmissions(row).exc

(***************************************************************************)
(* json.dump(data, json_file, indent=2): the text it writes, as code       *)
(* points (all of them ASCII, ensure_ascii being on), chunk by chunk       *)
(***************************************************************************)
RECURSIVE JoinRange(_, _, _, _)
\* sep.join(parts[a-1:b]), the two halves joined one after the other
JoinRange(sep, parts, a, b) ==
  IF a > b THEN <<>>
  ELSE IF a = b THEN parts[a]
  ELSE Bind((a + b) \div 2, LAMBDA mid :
         JoinRange(sep, parts, a, mid) \o sep \o JoinRange(sep, parts, mid + 1, b))

\* sep.join(parts); the set binds parts to its value, so that the
\* recursion does not build the sequence again at every step
JoinWith(sep, parts) == CHOOSE r \in {JoinRange(sep, p, 1, Len(p)) : p \in {parts}} : TRUE

\* "".join(parts)
Join(parts) == JoinWith(<<>>, parts)

\* the lower-case hexadecimal digit of a value
HexDigit(n) == IF n < 10 THEN Zero + n ELSE 97 + (n - 10)

\* "\\u{0:04x}".format(n) for a code unit n
EscapeUnit(n) ==
  <<Backslash, 117, HexDigit(n \div 4096), HexDigit((n \div 256) % 16),
    HexDigit((n \div 16) % 16), HexDigit(n % 16)>>

\* what json's ensure_ascii encoder writes for the character c of a str:
\* the short escapes, the printable ASCII characters as they are, \uXXXX
\* for the others, a surrogate pair for those outside the basic plane
EscapeChar(c) ==
  CASE c = Quote     -> <<Backslash, Quote>>
    [] c = Backslash -> <<Backslash, Backslash>>
    [] c = 10        -> <<Backslash, 110>>     \* \n
    [] c = 13        -> <<Backslash, 114>>     \* \r
    [] c = 9         -> <<Backslash, 116>>     \* \t
    [] c = 12        -> <<Backslash, 102>>     \* \f
    [] c = 8         -> <<Backslash, 98>>      \* \b
    [] c \in 32..126 /\ c \notin {Quote, Backslash} -> <<c>>
    [] c >= 65536    -> EscapeUnit(55296 + ((c - 65536) \div 1024))
                          \o EscapeUnit(56320 + ((c - 65536) % 1024))
    [] OTHER         -> EscapeUnit(c)

JsonString(s) == <<Quote>> \o Join([i \in 1..Len(s) |-> EscapeChar(s[i])]) \o <<Quote>>

\* int.__repr__ of an int
JsonInt(v) ==
  (IF v.neg THEN <<Hyphen>> ELSE <<>>) \o [i \in 1..Len(v.mag) |-> DigitChar(v.mag[i])]

JsonTrue == Text(<<"t", "r", "u", "e">>)
JsonFalse == Text(<<"f", "a", "l", "s", "e">>)

\* the keys of a record as the str they are
KeyText ==
  [id                    |-> Text(<<"i", "d">>),
   firstName             |-> Text(<<"f", "i", "r", "s", "t", "N", "a", "m", "e">>),
   lastName              |-> Text(<<"l", "a", "s", "t", "N", "a", "m", "e">>),
   email                 |-> Text(<<"e", "m", "a", "i", "l">>),
   phone                 |-> Text(<<"p", "h", "o", "n", "e">>),
   company               |-> Text(<<"c", "o", "m", "p", "a", "n", "y">>),
   industry              |-> Text(<<"i", "n", "d", "u", "s", "t", "r", "y">>),
   state                 |-> Text(<<"s", "t", "a", "t", "e">>),
   createDate            |-> Text(<<"c", "r", "e", "a", "t", "e", "D", "a", "t", "e">>),
   trafficSource         |-> Text(<<"t", "r", "a", "f", "f", "i", "c", "S", "o", "u", "r", "c", "e">>),
   trafficSourceDetail   |-> Text(<<"t", "r", "a", "f", "f", "i", "c", "S", "o", "u", "r", "c", "e",
                                    "D", "e", "t", "a", "i", "l">>),
   originalTrafficSource |-> Text(<<"o", "r", "i", "g", "i", "n", "a", "l", "T", "r", "a", "f", "f",
                                    "i", "c", "S", "o", "u", "r", "c", "e">>),
   formType              |-> Text(<<"f", "o", "r", "m", "T", "y", "p", "e">>),
   isComplete            |-> Text(<<"i", "s", "C", "o", "m", "p", "l", "e", "t", "e">>),
   recordSource          |-> Text(<<"r", "e", "c", "o", "r", "d", "S", "o", "u", "r", "c", "e">>),
   message               |-> Text(<<"m", "e", "s", "s", "a", "g", "e">>),
   leadStatus            |-> Text(<<"l", "e", "a", "d", "S", "t", "a", "t", "u", "s">>),
   formSubmissions       |-> Text(<<"f", "o", "r", "m", "S", "u", "b", "m", "i", "s", "s", "i", "o",
                                    "n", "s">>)]

JsonValue(rec, key) ==
  IF key = "isComplete" THEN (IF rec[key] THEN JsonTrue ELSE JsonFalse)
  ELSE IF key = "formSubmissions" THEN JsonInt(rec[key])
  ELSE JsonString(rec[key])

\* the chunks _iterencode_dict yields for one dict at indent level 1: the
\* brace, the newline and four blanks, then key, ": " and value of every
\* item with "," and a newline with four blanks between two items, then
\* the newline with two blanks and the closing brace
JsonObjectChunks(rec) ==
  <<<<123>>, <<Newline, Blank, Blank, Blank, Blank>>>>
    \o JoinWith(<<<<44, Newline, Blank, Blank, Blank, Blank>>>>,
                [i \in 1..Len(KeyOrder) |->
                   <<JsonString(KeyText[KeyOrder[i]]), <<Colon, Blank>>,
                     JsonValue(rec, KeyOrder[i])>>])
    \o <<<<Newline, Blank, Blank>>, <<125>>>>

\* the chunks _iterencode_list yields for the list: "[]" alone when it is
\* empty, else the bracket with a newline and two blanks, the chunks of
\* every dict with "," and a newline with two blanks between two dicts,
\* the newline and the closing bracket
JsonChunks(records) ==
  IF records = <<>> THEN <<<<91, 93>>>>
  ELSE <<<<91, Newline, Blank, Blank>>>>
         \o JoinWith(<<<<44, Newline, Blank, Blank>>>>,
                     [i \in 1..Len(records) |-> JsonObjectChunks(records[i])])
         \o <<<<Newline>>, <<93>>>>

\* the text json.dump writes: fp.write(chunk) for every chunk in turn
JsonDump(records) == Join(JsonChunks(records))

(***************************************************************************)
(* The buffers of json_file.  open(path, 'w', encoding='utf-8') returns a  *)
(* TextIOWrapper over a BufferedWriter.  The TextIOWrapper keeps what is   *)
(* written to it pending and hands the pending bytes on in one piece when  *)
(* a write would take them past its chunk size or takes them up to it; the *)
(* BufferedWriter keeps a piece that fits its buffer and else writes what  *)
(* it holds to the file, and the piece with it when the piece is larger    *)
(* than the buffer.  The text is ASCII: a character is a byte.             *)
(***************************************************************************)
ChunkSize == 8192     \* TextIOWrapper: the size pending bytes are handed on at
BufferSize == 4096    \* BufferedWriter: the block size of the file (st_blksize)

RECURSIVE ChunkEndsIn(_, _, _)
\* [len, ends] of chunks[a-1:b]: the length of their text and the offsets
\* in it at which a chunk ends
ChunkEndsIn(chunks, a, b) ==
  IF a = b THEN [len |-> Len(chunks[a]), ends |-> {Len(chunks[a])}]
  ELSE Bind((a + b) \div 2, LAMBDA mid :
         Bind(ChunkEndsIn(chunks, a, mid), LAMBDA l :
           Bind(ChunkEndsIn(chunks, mid + 1, b), LAMBDA r :
             [len |-> l.len + r.len, ends |-> l.ends \cup {l.len + e : e \in r.ends}])))

\* [len, ends] of all the chunks, none for no chunk
ChunkEnds(chunks) ==
  IF chunks = <<>> THEN [len |-> 0, ends |-> {}]
  ELSE Bind(chunks, LAMBDA c : ChunkEndsIn(c, 1, Len(c)))

RECURSIVE FlushedFrom(_, _, _, _)
\* the number of bytes in the file once the chunks of m from offset a on
\* are written, disk bytes being in the file, held bytes in the buffer of
\* the BufferedWriter and none pending.  The pending bytes grow up to the
\* last end of a chunk within ChunkSize, or to the end of the next chunk
\* when that chunk alone is larger; they stay pending when the text ends
\* there short of ChunkSize.
FlushedFrom(m, a, disk, held) ==
  IF a = m.len THEN disk
  ELSE LET fit == {e \in m.ends : e > a /\ e - a <= ChunkSize}
       IN  Bind(IF fit # {} THEN Max(fit) ELSE Min({e \in m.ends : e > a}), LAMBDA b :
             Bind(b - a, LAMBDA size :
               IF b = m.len /\ size < ChunkSize THEN disk
               ELSE IF size <= BufferSize - held THEN FlushedFrom(m, b, disk, held + size)
               ELSE IF size > BufferSize THEN FlushedFrom(m, b, disk + held + size, 0)
               ELSE FlushedFrom(m, b, disk + held, size)))

\* the number of bytes that have reached the file when fp.write has
\* returned for the last of the chunks
Flushed(chunks) == Bind(ChunkEnds(chunks), LAMBDA m : FlushedFrom(m, 0, 0, 0))

\* line 50: what print writes
Notice == "JSON saved to: src/data/initial_data.json"

(***************************************************************************)
(* Input files                                                             *)
(***************************************************************************)
MaxRows == 3    \* most lines after the header in a file of several lines
MaxRuns == 2    \* invocations of the script on the same input

\* the header of the export, in the order of the schema
FullHeader ==
  <<"Record ID",
    "First Name",
    "Last Name",
    "Email",
    "Phone Number",
    "Company Name",
    "Your Industry",
    "State/Region",
    "Create Date",
    "Latest Traffic Source",
    "Latest Traffic Source Drill-Down 1",
    "Original Traffic Source",
    "Record source detail 1",
    "Record source",
    "Message",
    "Lead Status",
    "Number of Form Submissions">>

\* a header with a column the script does not know in front of the others
ExtraHeader == <<"Notes">> \o FullHeader

\* a header that lacks most of the columns
PartialHeader == <<"Your Industry", "Record ID", "First Name">>

\* a blank first line (or an empty file): no column at all
Headers == {FullHeader, ExtraHeader, PartialHeader, <<>>}

\* cells of a row by column; a column left out has an empty cell
AnnRow ==
  "Record ID" :> Text(<<"4", "2">>)
    @@ "First Name" :> Text(<<"A", "n", "n">>)
    @@ "Company Name" :> Text(<<"A", "c", "m", "e">>)
    @@ "Your Industry" :> Text(<<"T", "e", "c", "h">>)
    @@ "Create Date" :> Text(<<"2", "0", "2", "3", "-", "0", "1", "-", "0", "1", " ", "0", "9", ":", "0", "0">>)
    @@ "Number of Form Submissions" :> Text(<<"2">>)

\* every column filled, each with a text of its own: a name with an e acute
\* (233) and a message with quotes, a tab, a euro sign (8364) and an emoji
\* (128512)
DistinctRow ==
  "Record ID" :> Text(<<"7">>)
    @@ "First Name" :> Text(<<"B", "o">>)
    @@ "Last Name" :> <<76, 233>>
    @@ "Email" :> Text(<<"b", "@", "x">>)
    @@ "Phone Number" :> Text(<<"+", "1", " ", "5">>)
    @@ "Company Name" :> Text(<<"C", "o">>)
    @@ "Your Industry" :> Text(<<"A", "g">>)
    @@ "State/Region" :> Text(<<"N", "Y">>)
    @@ "Create Date" :> Text(<<"2", "0", "2", "4", "-", "0", "3", "-", "1", "5", " ", "1", "4", ":", "3", "0">>)
    @@ "Latest Traffic Source" :> Text(<<"a", "d", "s">>)
    @@ "Latest Traffic Source Drill-Down 1" :> Text(<<"c", "p", "c">>)
    @@ "Original Traffic Source" :> Text(<<"w", "e", "b">>)
    @@ "Record source detail 1" :> Text(<<"f", "o", "r", "m">>)
    @@ "Record source" :> Text(<<"c", "r", "m">>)
    @@ "Message" :> Text(<<"\"", "h", "i", "\"">>) \o <<9, 8364, 128512>>
    @@ "Lead Status" :> Text(<<"n", "e", "w">>)
    @@ "Number of Form Submissions" :> Text(<<"2", ".", "7">>)

\* the form-submission cell is no numeral
BadCountRow ==
  "Record ID" :> Text(<<"9">>)
    @@ "Company Name" :> Text(<<"C", "o">>)
    @@ "Number of Form Submissions" :> Text(<<"a", "b", "c">>)

EmptyRow == [c \in {} |-> <<>>]

\* the cell under the column the script does not know
NotesCell == Text(<<"n", "b">>)

\* the line of a file with the given header that holds the cells of profile
\* (a column outside the profile gets an empty cell, the unknown column a note)
LineOf(names, profile) ==
  [i \in 1..Len(names) |->
     IF names[i] \in DOMAIN profile THEN profile[names[i]]
     ELSE IF names[i] = "Notes" THEN NotesCell
     ELSE <<>>]

\* the same line cut after its first n cells, or with one cell too many
ShortLine(line, n) == SubSeq(line, 1, IF n < Len(line) THEN n ELSE Len(line))
LongLine(line) == Append(line, Text(<<"x">>))

\* lines of the files of several lines: <<>> is a blank line
SmallLines(names) ==
  {LineOf(names, AnnRow), LineOf(names, DistinctRow), LineOf(names, BadCountRow),
   <<>>, ShortLine(LineOf(names, DistinctRow), 6)}

RECURSIVE SeqsUpTo(_, _)
\* the sequences of at most n elements of S
SeqsUpTo(S, n) ==
  IF n = 0 THEN {<<>>}
  ELSE LET shorter == SeqsUpTo(S, n - 1)
       IN  shorter \cup {Append(q, x) : q \in {r \in shorter : Len(r) = n - 1}, x \in S}

\* "Create Date" cells made of parts
DateParts ==
  [year   : {Text(<<"2", "0", "2", "4">>), Text(<<"2", "0", "2", "3">>), Text(<<"0", "0", "0", "0">>)},
   month  : {Text(<<"0", "2">>), Text(<<"2">>), Text(<<"1", "3">>)},
   day    : {Text(<<"2", "9">>), Text(<<" ", "5">>), Text(<<"3", "1">>)},
   sep    : {Text(<<" ">>), Text(<<" ", " ">>), Text(<<"T">>)},
   hour   : {Text(<<"4">>), Text(<<"2", "4">>)},
   minute : {Text(<<"3", "0">>), Text(<<"6", "0">>)}]

\* a date around a day, a separator, an hour and a minute
DateAround(day, sep, hour, minute) ==
  Text(<<"2", "0", "2", "4", "-", "0", "3", "-">>) \o day \o sep \o hour \o <<Colon>> \o minute

\* "Create Date" cells with digits and blanks from outside ASCII: the
\* fullwidth digits start at 65296, the Arabic-Indic ones at 1632
UnicodeDateCells ==
  {<<65298, 65296, 65298, 65300>> \o Text(<<"-", "0", "3", "-", "1", "5", " ", "1", "4", ":", "3", "0">>),
   Text(<<"2", "0", "2", "4", "-">>) \o <<65296, 51>> \o Text(<<"-", "1", "5", " ", "1", "4", ":", "3", "0">>),
   DateAround(<<49, 65301>>, <<Blank>>, Text(<<"1", "4">>), Text(<<"3", "0">>)),
   DateAround(<<51, 65296>>, <<Blank>>, Text(<<"1", "4">>), Text(<<"3", "0">>)),
   DateAround(<<65301>>, <<Blank>>, Text(<<"1", "4">>), Text(<<"3", "0">>)),
   DateAround(Text(<<"1", "5">>), <<Blank>>, <<49, 1636>>, Text(<<"3", "0">>)),
   DateAround(Text(<<"1", "5">>), <<Blank>>, <<50, 1635>>, Text(<<"3", "0">>)),
   DateAround(Text(<<"1", "5">>), <<Blank>>, <<1636>>, <<1637>>),
   DateAround(Text(<<"1", "5">>), <<Blank>>, Text(<<"1", "4">>), <<53, 1641>>),
   DateAround(Text(<<"1", "5">>), <<Blank>>, Text(<<"1", "4">>), <<54, 1641>>),
   DateAround(Text(<<"1", "5">>), <<11>>, Text(<<"1", "4">>), Text(<<"3", "0">>)),
   DateAround(Text(<<"1", "5">>), <<28>>, Text(<<"1", "4">>), Text(<<"3", "0">>)),
   DateAround(Text(<<"1", "5">>), <<31, 160>>, Text(<<"1", "4">>), Text(<<"3", "0">>)),
   DateAround(Text(<<"1", "5">>), <<12288>>, Text(<<"1", "4">>), Text(<<"3", "0">>)),
   DateAround(Text(<<"1", "5">>), <<8203>>, Text(<<"1", "4">>), Text(<<"3", "0">>)),
   DateAround(<<160, 53>>, <<Blank>>, Text(<<"1", "4">>), Text(<<"3", "0">>))}

DateCells ==
  {d.year \o <<Hyphen>> \o d.month \o <<Hyphen>> \o d.day \o d.sep \o d.hour \o <<Colon>> \o d.minute :
     d \in DateParts}
  \cup UnicodeDateCells
  \cup
  {<<>>, Text(<<"n", "o", "t", "-", "a", "-", "d", "a", "t", "e">>),
   Text(<<"2", "0", "2", "4", "-", "0", "3", "-", "1", "5", " ", "1", "4", ":", "3", "0">>),
   Text(<<"2", "0", "2", "4", "-", "0", "3", "-", "1", "5", "T", "1", "4", ":", "3", "0">>),
   Text(<<"2", "0", "2", "4", "-", "0", "3", "-", "1", "5", " ", "1", "4", ":", "3", "0", ":", "0", "0">>),
   Text(<<"2", "0", "2", "4", "-", "0", "3", "-", "1", "5">>),
   Text(<<"1", "5", "/", "0", "3", "/", "2", "0", "2", "4", " ", "1", "4", ":", "3", "0">>),
   Text(<<"2", "0", "2", "4", "-", "3", "-", "5", " ", "4", ":", "5">>),
   Text(<<"2", "0", "2", "4", "-", "0", "3", "-", "1", "5">>) \o <<9>> \o Text(<<"1", "4", ":", "3", "0">>),
   Text(<<" ", "2", "0", "2", "4", "-", "0", "3", "-", "1", "5", " ", "1", "4", ":", "3", "0">>),
   Text(<<"2", "0", "2", "4", "-", "0", "3", "-", "1", "5", " ", "1", "4", ":", "3", "0", " ">>),
   Text(<<"0", "0", "0", "1", "-", "0", "1", "-", "0", "1", " ", "0", "0", ":", "0", "0">>),
   Text(<<"2", "0", "2", "4", "-", "0", "4", "-", "3", "1", " ", "0", "0", ":", "0", "0">>),
   Text(<<"2", "0", "0", "0", "-", "0", "2", "-", "2", "9", " ", "2", "3", ":", "5", "9">>),
   Text(<<"1", "9", "0", "0", "-", "0", "2", "-", "2", "9", " ", "2", "3", ":", "5", "9">>)}

\* the numeral of a natural given by its decimal digits
NumeralOf(ds) == [i \in 1..Len(ds) |-> DigitChar(ds[i])]

\* the 309 digits of 2^1024 - 2^970, halfway between the largest double and
\* 2^1024: the least value that float() rounds to infinity
HalfwayToInfinity ==
  <<1, 7, 9, 7, 6, 9, 3, 1, 3, 4, 8, 6, 2, 3, 1, 5, 8, 0, 7, 9, 3, 7, 2, 8, 9, 7, 1, 4, 0,
    5, 3, 0, 3, 4, 1, 5, 0, 7, 9, 9, 3, 4, 1, 3, 2, 7, 1, 0, 0, 3, 7, 8, 2, 6, 9, 3, 6, 1,
    7, 3, 7, 7, 8, 9, 8, 0, 4, 4, 4, 9, 6, 8, 2, 9, 2, 7, 6, 4, 7, 5, 0, 9, 4, 6, 6, 4, 9,
    0, 1, 7, 9, 7, 7, 5, 8, 7, 2, 0, 7, 0, 9, 6, 3, 3, 0, 2, 8, 6, 4, 1, 6, 6, 9, 2, 8, 8,
    7, 9, 1, 0, 9, 4, 6, 5, 5, 5, 5, 4, 7, 8, 5, 1, 9, 4, 0, 4, 0, 2, 6, 3, 0, 6, 5, 7, 4,
    8, 8, 6, 7, 1, 5, 0, 5, 8, 2, 0, 6, 8, 1, 9, 0, 8, 9, 0, 2, 0, 0, 0, 7, 0, 8, 3, 8, 3,
    6, 7, 6, 2, 7, 3, 8, 5, 4, 8, 4, 5, 8, 1, 7, 7, 1, 1, 5, 3, 1, 7, 6, 4, 4, 7, 5, 7, 3,
    0, 2, 7, 0, 0, 6, 9, 8, 5, 5, 5, 7, 1, 3, 6, 6, 9, 5, 9, 6, 2, 2, 8, 4, 2, 9, 1, 4, 8,
    1, 9, 8, 6, 0, 8, 3, 4, 9, 3, 6, 4, 7, 5, 2, 9, 2, 7, 1, 9, 0, 7, 4, 1, 6, 8, 4, 4, 4,
    3, 6, 5, 5, 1, 0, 7, 0, 4, 3, 4, 2, 7, 1, 1, 5, 5, 9, 6, 9, 9, 5, 0, 8, 0, 9, 3, 0, 4,
    2, 8, 8, 0, 1, 7, 7, 9, 0, 4, 1, 7, 4, 4, 9, 7, 7, 9, 2>>

\* numerals at the edge of the range of a double: the integer below
\* 2^1024 - 2^970, which float() rounds to the largest double, and
\* 2^1024 - 2^970, which it rounds to infinity
EdgeCells ==
  {NumeralOf([HalfwayToInfinity EXCEPT ![309] = @ - 1]), NumeralOf(HalfwayToInfinity)}

\* the numeral of 10^309, past every double
TooWide == NumeralOf(<<1>> \o Zeros(309))

\* "Number of Form Submissions" cells: small numerals, what float() rejects,
\* numerals at the edge of the precision of a double, numerals past 2^31 and
\* past 2^53 and past every double, and digits and blanks from outside ASCII
FormCells ==
  {Text(<<"0">>), Text(<<"3">>), Text(<<"3", ".", "0">>), Text(<<"2", ".", "7">>),
   Text(<<"-", "2", ".", "7">>), Text(<<"+", "3">>), Text(<<" ", "3", " ">>), Text(<<".", "5">>),
   Text(<<"3", ".">>), Text(<<"1", "e", "3">>), Text(<<"1", "_", "0">>), Text(<<"a", "b", "c">>),
   Text(<<" ">>), Text(<<"i", "n", "f">>), Text(<<"n", "a", "n">>), Text(<<"1", ",", "5">>),
   Text(<<"-", "0", ".", "5">>), Text(<<"1", "e", "4", "0", "0">>), Text(<<"1", "e", "2", "2">>),
   Text(<<"1", "e", "1", "0">>),
   Text(<<"0", ".", "9", "9", "9", "9", "9", "9", "9", "9", "9", "9", "9", "9", "9", "9", "9", "9">>),
   Text(<<"0", ".", "9", "9", "9", "9", "9", "9", "9", "9", "9", "9", "9", "9", "9", "9", "9", "9", "9">>),
   Text(<<"2", ".", "9", "9", "9", "9", "9", "9", "9", "9", "9", "9", "9", "9", "9", "9", "9", "7">>),
   Text(<<"2", ".", "9", "9", "9", "9", "9", "9", "9", "9", "9", "9", "9", "9", "9", "9", "9", "8">>),
   Text(<<"9", "9", "9", "9", "9", "9", "9", "9", "9", "9", "9", "9", "9", "9", "9">>),
   Text(<<"1", "0", "7", "3", "7", "4", "1", "8", "2", "4">>),
   Text(<<"2", "1", "4", "7", "4", "8", "3", "6", "4", "8">>),
   Text(<<"-", "9", "9", "9", "9", "9", "9", "9", "9", "9", "9", "9", ".", "5">>),
   Text(<<"4", "5", "0", "3", "5", "9", "9", "6", "2", "7", "3", "7", "0", "4", "9", "6", ".", "5">>),
   Text(<<"4", "5", "0", "3", "5", "9", "9", "6", "2", "7", "3", "7", "0", "4", "9", "7", ".", "5">>),
   Text(<<"9", "0", "0", "7", "1", "9", "9", "2", "5", "4", "7", "4", "0", "9", "9", "1", ".", "5">>),
   Text(<<"9", "0", "0", "7", "1", "9", "9", "2", "5", "4", "7", "4", "0", "9", "9", "3">>),
   Text(<<"-", "9", "0", "0", "7", "1", "9", "9", "2", "5", "4", "7", "4", "0", "9", "9", "5">>),
   Text(<<"1", "2", "3", "4", "5", "6", "7", "8", "9", "0", "1", "2", "3", "4", "5", "6", "7", "8",
          "9", "0", "1", "2", "3", "4", "5", ".", "7", "5">>),
   <<1635>>, <<65299, 46, 65301>>, <<65299, 95, 65299>>, <<51, 11>>, <<28, 51>>, <<160, 51, 12288>>,
   <<51, 233>>, TooWide}

\* three rows whose numerals float() rounds: up to 1, down to 2^53, and to
\* infinity
RoundedRows ==
  <<[DistinctRow EXCEPT !["Number of Form Submissions"] =
       Text(<<"0", ".", "9", "9", "9", "9", "9", "9", "9", "9", "9", "9", "9", "9", "9", "9",
              "9", "9", "9">>)],
    [DistinctRow EXCEPT !["Number of Form Submissions"] =
       Text(<<"9", "0", "0", "7", "1", "9", "9", "2", "5", "4", "7", "4", "0", "9", "9", "3">>)],
    [DistinctRow EXCEPT !["Number of Form Submissions"] = TooWide]>>

\* rows that differ from DistinctRow in one cell, or that fill one column only
OneCellRows ==
  {[DistinctRow EXCEPT !["Create Date"] = d] : d \in DateCells}
    \cup {[DistinctRow EXCEPT !["Number of Form Submissions"] = f] : f \in FormCells}
    \cup {[DistinctRow EXCEPT ![c] = <<>>] : c \in DOMAIN DistinctRow}
    \cup {[c \in {k} |-> DistinctRow[k]] : k \in DOMAIN DistinctRow}

\* control characters, DEL and a character past the basic plane in a cell
OddMessage == <<8, 12, 10, 0, 27, 127, 92, 96, 133, 55295, 65535, 65536, 1114111>>

\* a cell of n letters
LongCell(n) == [i \in 1..n |-> 120]

\* rows whose record is longer than the buffers of the output file: one
\* with a message larger than either buffer, one with 600 letters in every
\* column that is copied as it is
LongMessageRow == [DistinctRow EXCEPT !["Message"] = LongCell(9000)]
WideRow ==
  [c \in DOMAIN DistinctRow |->
     IF c \in {"Create Date", "Number of Form Submissions"} THEN DistinctRow[c]
     ELSE LongCell(600)]
LongRows == {LongMessageRow, WideRow}

\* what stops the reader: the end of the file, or an exception of the
\* decoder or of the csv parser
ReadErrors == {"UnicodeDecodeError", "_csv.Error"}

\* the files: [names, lines, readError]
InputFiles ==
  UNION {{[names |-> h, lines |-> ls, readError |-> ""] :
            ls \in SeqsUpTo(SmallLines(h), MaxRows)} : h \in Headers}
    \cup {[names |-> h, lines |-> <<LineOf(h, EmptyRow)>>, readError |-> ""] : h \in Headers}
    \cup {[names |-> h, lines |-> <<LongLine(LineOf(h, AnnRow))>>, readError |-> ""] :
            h \in Headers}
    \cup {[names |-> FullHeader, lines |-> <<LineOf(FullHeader, p)>>, readError |-> ""] :
            p \in OneCellRows \cup LongRows
                   \cup {[DistinctRow EXCEPT !["Message"] = OddMessage]}}
    \cup {[names |-> FullHeader,
           lines |-> <<ShortLine(LineOf(FullHeader, DistinctRow), n)>>,
           readError |-> ""] : n \in 1..Len(FullHeader)}
    \cup {[names |-> FullHeader,
           lines |-> [i \in 1..Len(RoundedRows) |-> LineOf(FullHeader, RoundedRows[i])],
           readError |-> ""]}
    \cup {[names |-> h, lines |-> <<>>, readError |-> e] :
            h \in {<<>>, FullHeader}, e \in ReadErrors}
    \cup {[names |-> FullHeader, lines |-> ls, readError |-> e] :
            ls \in {<<LineOf(FullHeader, AnnRow)>>,
                    <<LineOf(FullHeader, AnnRow), <<>>, LineOf(FullHeader, DistinctRow)>>,
                    <<LineOf(FullHeader, BadCountRow)>>},
            e \in ReadErrors}

\* files of one row with a numeral at the edge of the range of a double
EdgeFiles ==
  {[names |-> FullHeader,
    lines |-> <<LineOf(FullHeader, [DistinctRow EXCEPT !["Number of Form Submissions"] = f])>>,
    readError |-> ""] : f \in EdgeCells}

(***************************************************************************)
(* The script                                                              *)
(***************************************************************************)
NoFile == [exists |-> FALSE, text |-> <<>>]
NoRun == [pc |-> "", err |-> "", abortedAt |-> "", outFile |-> NoFile, stdout |-> <<>>]

\* what src/data/initial_data.json may hold before the script runs
EmptyList == Text(<<"[", "]">>)
Stale == Text(<<"s", "t", "a", "l", "e">>)

\* the state before the script starts, the input being one of files
InitWith(files) ==
  /\ csvExists \in BOOLEAN
  /\ \E f \in files :
       /\ fieldnames = (IF csvExists THEN f.names ELSE <<>>)
       /\ lines = (IF csvExists THEN f.lines ELSE <<>>)
       /\ readError = (IF csvExists THEN f.readError ELSE "")
  /\ outDirExists \in BOOLEAN
  /\ outFile \in (IF outDirExists
                  THEN {NoFile, [exists |-> TRUE, text |-> EmptyList],
                        [exists |-> TRUE, text |-> Stale]}
                  ELSE {NoFile})
  /\ outBuf = <<>>
  /\ pc = "start"
  /\ inOpen = FALSE
  /\ outOpen = FALSE
  /\ pos = 0
  /\ data = <<>>
  /\ stdout = <<>>
  /\ err = ""
  /\ abortedAt = ""
  /\ run = 1
  /\ outAtStart = outFile
  /\ prev = NoRun

\* the input is one of InputFiles over any output file, or one of EdgeFiles
\* over a stale one
Init ==
  \/ InitWith(InputFiles)
  \/ InitWith(EdgeFiles) /\ outFile = [exists |-> TRUE, text |-> Stale]

\* lines 10-12: open(input_csv_path), DictReader(f), data = []
OpenInput ==
  /\ pc = "start"
  /\ csvExists
  /\ inOpen' = TRUE
  /\ data' = <<>>
  /\ pos' = 0
  /\ pc' = "reading"
  /\ UNCHANGED <<csvExists, fieldnames, lines, readError, outDirExists, outFile, outBuf,
                 outOpen, stdout, err, abortedAt, run, outAtStart, prev>>

\* line 10 when initial_data.csv does not exist
OpenInputFails ==
  /\ pc = "start"
  /\ ~csvExists
  /\ pc' = "aborted"
  /\ err' = "FileNotFoundError"
  /\ abortedAt' = "open input"
  /\ UNCHANGED <<csvExists, fieldnames, lines, readError, outDirExists, outFile, outBuf,
                 inOpen, outOpen, pos, data, stdout, run, outAtStart, prev>>

\* NextRow with data.insert(0, record) in place of data.append(record)
NextRow_prepend ==
  /\ pc = "reading"
  /\ NextRowIndex(lines, pos) # 0
  /\ \E i \in {NextRowIndex(lines, pos)} : \E row \in {DictRow(fieldnames, lines[i])} :
       /\ RowError(row) = ""
       /\ data' = <<Record(row)>> \o data
       /\ pos' = i
  /\ UNCHANGED <<csvExists, fieldnames, lines, readError, outDirExists, outFile, outBuf, pc,
                 inOpen, outOpen, stdout, err, abortedAt, run, outAtStart, prev>>

\* lines 14-45: the reader yields the next non-blank line as a dict, the
\* body builds its record and appends it
NextRow ==
  /\ pc = "reading"
  /\ NextRowIndex(lines, pos) # 0
  /\ \E i \in {NextRowIndex(lines, pos)} : \E row \in {DictRow(fieldnames, lines[i])} :
       /\ RowError(row) = ""
       /\ data' = Append(data, Record(row))
       /\ pos' = i
  /\ UNCHANGED <<csvExists, fieldnames, lines, readError, outDirExists, outFile, outBuf, pc,
                 inOpen, outOpen, stdout, err, abortedAt, run, outAtStart, prev>>

\* RowRaises with the exception swallowed: the row is skipped
RowRaises_skip ==
  /\ pc = "reading"
  /\ NextRowIndex(lines, pos) # 0
  /\ \E i \in {NextRowIndex(lines, pos)} : \E row \in {DictRow(fieldnames, lines[i])} :
       /\ RowError(row) # ""
       /\ pos' = i
  /\ UNCHANGED <<csvExists, fieldnames, lines, readError, outDirExists, outFile, outBuf, pc,
                 inOpen, outOpen, data, stdout, err, abortedAt, run, outAtStart, prev>>

\* line 33 raises: the with statement closes f and the script ends
RowRaises ==
  /\ pc = "reading"
  /\ NextRowIndex(lines, pos) # 0
  /\ \E i \in {NextRowIndex(lines, pos)} : \E row \in {DictRow(fieldnames, lines[i])} :
       /\ RowError(row) # ""
       /\ err' = RowError(row)
       /\ pos' = i
  /\ abortedAt' = "row"
  /\ inOpen' = FALSE
  /\ pc' = "aborted"
  /\ UNCHANGED <<csvExists, fieldnames, lines, readError, outDirExists, outFile, outBuf,
                 outOpen, data, stdout, run, outAtStart, prev>>

\* line 14 raises: the reader meets bytes that are no UTF-8 or a field past
\* the size limit of the csv module where its next line should be; the with
\* statement closes f and the script ends
ReaderRaises ==
  /\ pc = "reading"
  /\ NextRowIndex(lines, pos) = 0
  /\ readError # ""
  /\ pos' = Len(lines)
  /\ err' = readError
  /\ abortedAt' = "reader"
  /\ inOpen' = FALSE
  /\ pc' = "aborted"
  /\ UNCHANGED <<csvExists, fieldnames, lines, readError, outDirExists, outFile, outBuf,
                 outOpen, data, stdout, run, outAtStart, prev>>

\* EndOfInput without the with statement: f stays open
EndOfInput_leak ==
  /\ pc = "reading"
  /\ NextRowIndex(lines, pos) = 0
  /\ readError = ""
  /\ pos' = Len(lines)
  /\ pc' = "read"
  /\ UNCHANGED <<csvExists, fieldnames, lines, readError, outDirExists, outFile, outBuf,
                 inOpen, outOpen, data, stdout, err, abortedAt, run, outAtStart, prev>>

\* line 14 when the reader is exhausted: the loop and the with block end
EndOfInput ==
  /\ pc = "reading"
  /\ NextRowIndex(lines, pos) = 0
  /\ readError = ""
  /\ pos' = Len(lines)
  /\ inOpen' = FALSE
  /\ pc' = "read"
  /\ UNCHANGED <<csvExists, fieldnames, lines, readError, outDirExists, outFile, outBuf,
                 outOpen, data, stdout, err, abortedAt, run, outAtStart, prev>>

\* OpenOutput with mode 'a': what the file holds is kept
OpenOutput_append ==
  /\ pc = "read"
  /\ outDirExists
  /\ outFile' = [exists |-> TRUE, text |-> outFile.text]
  /\ outBuf' = <<>>
  /\ outOpen' = TRUE
  /\ pc' = "out open"
  /\ UNCHANGED <<csvExists, fieldnames, lines, readError, outDirExists, inOpen, pos, data,
                 stdout, err, abortedAt, run, outAtStart, prev>>

\* line 48: open(output_json_path, 'w') creates the file or empties it;
\* the buffers of json_file are empty
OpenOutput ==
  /\ pc = "read"
  /\ outDirExists
  /\ outFile' = [exists |-> TRUE, text |-> <<>>]
  /\ outBuf' = <<>>
  /\ outOpen' = TRUE
  /\ pc' = "out open"
  /\ UNCHANGED <<csvExists, fieldnames, lines, readError, outDirExists, inOpen, pos, data,
                 stdout, err, abortedAt, run, outAtStart, prev>>

\* line 48 when src/data does not exist
OpenOutputFails ==
  /\ pc = "read"
  /\ ~outDirExists
  /\ pc' = "aborted"
  /\ err' = "FileNotFoundError"
  /\ abortedAt' = "open output"
  /\ UNCHANGED <<csvExists, fieldnames, lines, readError, outDirExists, outFile, outBuf,
                 inOpen, outOpen, pos, data, stdout, run, outAtStart, prev>>

\* line 49: json.dump writes the chunks of the list to json_file; the
\* bytes its buffers have passed on are in the file, after what the file
\* holds, and the rest waits in them
Dump ==
  /\ pc = "out open"
  /\ \E text \in {JsonDump(data)}, flushed \in {Flushed(JsonChunks(data))} :
       /\ outFile' = [outFile EXCEPT !.text = @ \o SubSeq(text, 1, flushed)]
       /\ outBuf' = SubSeq(text, flushed + 1, Len(text))
  /\ pc' = "dumped"
  /\ UNCHANGED <<csvExists, fieldnames, lines, readError, outDirExists, inOpen, outOpen, pos,
                 data, stdout, err, abortedAt, run, outAtStart, prev>>

\* line 50: print
PrintNotice ==
  /\ pc = "dumped"
  /\ stdout' = Append(stdout, Notice)
  /\ pc' = "printed"
  /\ UNCHANGED <<csvExists, fieldnames, lines, readError, outDirExists, outFile, outBuf,
                 inOpen, outOpen, pos, data, err, abortedAt, run, outAtStart, prev>>

\* end of the with block of line 48: json_file.close() writes what waits
\* in the buffers to the file
CloseOutput ==
  /\ pc = "printed"
  /\ outFile' = [outFile EXCEPT !.text = @ \o outBuf]
  /\ outBuf' = <<>>
  /\ outOpen' = FALSE
  /\ pc' = "done"
  /\ UNCHANGED <<csvExists, fieldnames, lines, readError, outDirExists, inOpen, pos, data,
                 stdout, err, abortedAt, run, outAtStart, prev>>

\* the script is started again on the files the last run left
Rerun ==
  /\ pc \in {"done", "aborted"}
  /\ run < MaxRuns
  /\ prev' = [pc |-> pc, err |-> err, abortedAt |-> abortedAt, outFile |-> outFile,
              stdout |-> stdout]
  /\ run' = run + 1
  /\ outAtStart' = outFile
  /\ pc' = "start"
  /\ pos' = 0
  /\ data' = <<>>
  /\ stdout' = <<>>
  /\ err' = ""
  /\ abortedAt' = ""
  /\ UNCHANGED <<csvExists, fieldnames, lines, readError, outDirExists, outFile, outBuf,
                 inOpen, outOpen>>

Step ==
  \/ OpenInput
  \/ OpenInputFails
  \/ NextRow
  \/ RowRaises
  \/ ReaderRaises
  \/ EndOfInput
  \/ OpenOutput
  \/ OpenOutputFails
  \/ Dump
  \/ PrintNotice
  \/ CloseOutput

Next == Step \/ Rerun

Spec == Init /\ [][Next]_vars

\* the files of the runs checked for termination: a valid row, a row that
\* raises and a blank line, in every order, a row with a long record and a
\* file the reader fails on
LiveFiles ==
  {[names |-> FullHeader, lines |-> ls, readError |-> ""] :
     ls \in SeqsUpTo({LineOf(FullHeader, AnnRow), LineOf(FullHeader, BadCountRow), <<>>},
                     MaxRows)}
    \cup {[names |-> FullHeader, lines |-> <<LineOf(FullHeader, p)>>, readError |-> ""] :
            p \in LongRows}
    \cup {[names |-> FullHeader, lines |-> <<LineOf(FullHeader, AnnRow)>>, readError |-> e] :
            e \in ReadErrors}

LiveInit == InitWith(LiveFiles)

\* the interpreter keeps executing the script until it ends
LiveSpec == LiveInit /\ [][Next]_vars /\ WF_vars(Step)

(***************************************************************************)
(* Properties                                                              *)
(***************************************************************************)
\* the lines the reader has consumed so far that are not blank
ConsumedRows == SelectSeq(SubSeq(lines, 1, pos), LAMBDA l : l # <<>>)

\* the cell of a line under the column named c: None if the header has no
\* such column, or if the line is too short to have the cell
CellOf(line, c) ==
  IF \E i \in 1..Len(fieldnames) : fieldnames[i] = c
  THEN LET i == CHOOSE k \in 1..Len(fieldnames) : fieldnames[k] = c
       IN  IF i <= Len(line) THEN line[i] ELSE None
  ELSE None

\* the record data[i] and the line it was made from
RecordLines == {<<data[i], ConsumedRows[i]>> : i \in 1..Len(data)}

\* C1 as stated: when the run completes the output has as many records as
\* the input has lines after the header, and the i-th record is the
\* normalization of the i-th line.
C1_OneRecordPerLine ==
  pc = "done" =>
    /\ Len(data) = Len(lines)
    /\ \A i \in 1..Len(data) : data[i] = Record(DictRow(fieldnames, lines[i]))

\* C1 amended: blank lines are skipped.  While the run has not aborted, data
\* is the normalization, in order, of exactly the non-blank lines consumed so
\* far, and a completed run has consumed every line.
C1_RowsInOrder ==
  pc # "aborted" =>
    /\ Len(data) = Len(ConsumedRows)
    /\ \A i \in 1..Len(data) : data[i] = Record(DictRow(fieldnames, ConsumedRows[i]))
    /\ pc \in {"read", "out open", "dumped", "printed", "done"} => pos = Len(lines)

\* a completed run over two different rows with a blank line between them
C1_Witness ==
  /\ pc = "done"
  /\ Len(lines) = 3 /\ lines[2] = <<>>
  /\ Len(data) = 2 /\ data[1] # data[2]

\* C2: the normalizer never fails on a row, whatever its cells hold: no run
\* ends with an exception raised by the body of the loop.
C2_NormalizerNeverFails == abortedAt # "row"

\* C3: every plain string field of every record is the cell of its own
\* column, verbatim, when that cell is a non-empty string, and the empty
\* string when the column is absent, the cell is empty or the line is too
\* short to have the cell.
C3_PlainFieldsVerbatim ==
  \A rl \in RecordLines : \A f \in DOMAIN KeyColumn :
    LET cell == CellOf(rl[2], KeyColumn[f])
    IN  rl[1][f] = (IF cell # None /\ cell # <<>> THEN cell ELSE <<>>)

\* a header with a column in front of the known ones, a full row under it
\* and a short line that lacks the cells of most columns
C3_Witness ==
  /\ pc = "done"
  /\ fieldnames = ExtraHeader
  /\ \E i, j \in 1..Len(data) :
       /\ data[i].message = DistinctRow["Message"] /\ data[i].id = DistinctRow["Record ID"]
       /\ Len(ConsumedRows[j]) = 6 /\ data[j].phone = DistinctRow["Phone Number"]
       /\ data[j].company = <<>>

\* C4: isComplete is a boolean, TRUE exactly when the "Company Name" cell and
\* the "Your Industry" cell are both present and non-empty, which is exactly
\* when the company and industry fields of the record are both non-empty.
C4_IsComplete ==
  \A rl \in RecordLines :
    LET co == CellOf(rl[2], "Company Name")
        ind == CellOf(rl[2], "Your Industry")
    IN  /\ rl[1].isComplete \in BOOLEAN
        /\ rl[1].isComplete <=> (co # None /\ co # <<>> /\ ind # None /\ ind # <<>>)
        /\ rl[1].isComplete <=> (rl[1].company # <<>> /\ rl[1].industry # <<>>)

\* a record that is complete next to one with a company and no industry
C4_Witness ==
  /\ pc = "done"
  /\ \E i, j \in 1..Len(data) :
       /\ data[i].isComplete
       /\ data[j].company # <<>> /\ data[j].industry = <<>> /\ ~data[j].isComplete

\* all of s from index a to index b are ASCII digits
AllDigits(s, a, b) == \A i \in a..b : At(s, i) \in AsciiDigits(0, 9)

\* the cell is YYYY-MM-DD HH:MM to the letter, with a valid date and time
StrictDate(cell) ==
  /\ Len(cell) = 16
  /\ AllDigits(cell, 1, 4) /\ cell[5] = Hyphen /\ AllDigits(cell, 6, 7) /\ cell[8] = Hyphen
  /\ AllDigits(cell, 9, 10) /\ cell[11] = Blank /\ AllDigits(cell, 12, 13)
  /\ cell[14] = Colon /\ AllDigits(cell, 15, 16)
  /\ DigitsToInt(SubSeq(cell, 1, 4)) >= 1
  /\ DigitsToInt(SubSeq(cell, 6, 7)) \in 1..12
  /\ DigitsToInt(SubSeq(cell, 9, 10)) \in
       1..DaysInMonth(DigitsToInt(SubSeq(cell, 1, 4)), DigitsToInt(SubSeq(cell, 6, 7)))
  /\ DigitsToInt(SubSeq(cell, 12, 13)) \in 0..23
  /\ DigitsToInt(SubSeq(cell, 15, 16)) \in 0..59

\* C5 as stated: createDate is the cell with "T" for the blank and ":00Z"
\* after it when the cell is YYYY-MM-DD HH:MM with valid components, and the
\* empty string for every other cell.
C5_OnlyStrictDates ==
  \A rl \in RecordLines :
    LET cell == CellOf(rl[2], "Create Date")
    IN  rl[1].createDate =
          (IF cell # None /\ StrictDate(cell)
           THEN SubSeq(cell, 1, 10) \o <<LetterT>> \o SubSeq(cell, 12, 16)
                  \o <<Colon, Zero, Zero, LetterZ>>
           ELSE <<>>)

\* t is a text of two characters, the first in A and the second in B
TwoOf(t, A, B) == Len(t) = 2 /\ t[1] \in A /\ t[2] \in B

\* t is one character of A
OneOf(t, A) == Len(t) = 1 /\ t[1] \in A

\* a month from 1 to 12 in ASCII digits, of one digit or two
IsMonthText(t) ==
  \/ TwoOf(t, {Zero + 1}, AsciiDigits(0, 2))
  \/ TwoOf(t, {Zero}, AsciiDigits(1, 9))
  \/ OneOf(t, AsciiDigits(1, 9))

\* a day from 1 to 31 of one digit or two, a one-digit day with or without a
\* blank before it; the second digit of a day from 10 to 29 may be a decimal
\* digit of any script
IsDayText(t) ==
  \/ TwoOf(t, {Zero + 3}, AsciiDigits(0, 1))
  \/ TwoOf(t, AsciiDigits(1, 2), Digits)
  \/ TwoOf(t, {Zero}, AsciiDigits(1, 9))
  \/ OneOf(t, AsciiDigits(1, 9))
  \/ TwoOf(t, {Blank}, AsciiDigits(1, 9))

\* an hour from 0 to 23 of one digit or two; a one-digit hour and the second
\* digit of an hour from 00 to 19 may be a decimal digit of any script
IsHourText(t) ==
  \/ TwoOf(t, {Zero + 2}, AsciiDigits(0, 3))
  \/ TwoOf(t, AsciiDigits(0, 1), Digits)
  \/ OneOf(t, Digits)

\* a minute from 0 to 59 of one digit or two; a one-digit minute and the
\* second digit of a two-digit one may be a decimal digit of any script
IsMinuteText(t) ==
  \/ TwoOf(t, AsciiDigits(0, 5), Digits)
  \/ OneOf(t, Digits)

\* the ways to cut a cell into year - month - day, blanks, hour : minute:
\* the lengths of month, day, blanks, hour and minute
DateCuts(cell) ==
  {c \in [ml : 1..2, dl : 1..2, wl : 1..Len(cell), hl : 1..2, nl : 1..2] :
     LET mEnd == 5 + c.ml
         d0   == mEnd + 2
         dEnd == d0 + c.dl - 1
         h0   == dEnd + c.wl + 1
         hEnd == h0 + c.hl - 1
         n0   == hEnd + 2
         nEnd == n0 + c.nl - 1
     IN  /\ Len(cell) = nEnd
         /\ \A i \in 1..4 : cell[i] \in Digits
         /\ cell[5] = Hyphen
         /\ IsMonthText(SubSeq(cell, 6, mEnd)) /\ cell[mEnd + 1] = Hyphen
         /\ IsDayText(SubSeq(cell, d0, dEnd))
         /\ \A k \in (dEnd + 1)..(h0 - 1) : cell[k] \in Whitespace
         /\ IsHourText(SubSeq(cell, h0, hEnd)) /\ cell[hEnd + 1] = Colon
         /\ IsMinuteText(SubSeq(cell, n0, nEnd))}

\* the numbers a cut gives
CutDate(cell, c) ==
  LET mEnd == 5 + c.ml
      d0   == mEnd + 2
      h0   == d0 + c.dl + c.wl
      n0   == h0 + c.hl + 1
      day  == SubSeq(cell, d0, d0 + c.dl - 1)
  IN  [year   |-> DigitsToInt(SubSeq(cell, 1, 4)),
       month  |-> DigitsToInt(SubSeq(cell, 6, mEnd)),
       day    |-> DigitsToInt(IF day[1] = Blank THEN Tail(day) ELSE day),
       hour   |-> DigitsToInt(SubSeq(cell, h0, h0 + c.hl - 1)),
       minute |-> DigitsToInt(SubSeq(cell, n0, n0 + c.nl - 1))]

ValidDate(t) ==
  /\ t.year >= 1
  /\ t.month \in 1..12
  /\ t.day \in 1..DaysInMonth(t.year, t.month)
  /\ t.hour \in 0..23
  /\ t.minute \in 0..59

\* C5 amended: createDate is "YYYY-MM-DDTHH:MM:00Z", zero-padded and in
\* ASCII digits, with the year, month, day, hour and minute of the cell
\* whenever the cell is a four-digit year, "-", a month of one or two
\* digits, "-", a day of one or two digits (one digit may have a blank before
\* it), one or more whitespace characters, an hour of one or two digits, ":"
\* and a minute of one or two digits, with valid calendar and 24-hour clock
\* values.  The digits are ASCII digits, or decimal digits of any script in
\* the year, as the second digit of a day from 10 to 29, of an hour from 00
\* to 19 and of a minute, and as a one-digit hour or minute; the whitespace
\* is any character of the class \s.  For every other cell createDate is the
\* empty string.  No run ends on a date: a run that ends on a row ends on a
\* non-empty "Number of Form Submissions" cell.
C5_LenientDates ==
  /\ \A rl \in RecordLines :
       LET cell == CellOf(rl[2], "Create Date")
           good == IF cell = None THEN {}
                   ELSE {t \in {CutDate(cell, c) : c \in DateCuts(cell)} : ValidDate(t)}
       IN  IF good = {} THEN rl[1].createDate = <<>>
           ELSE \A t \in good :
                  rl[1].createDate =
                    ZeroPad(t.year, 4) \o <<Hyphen>> \o ZeroPad(t.month, 2) \o <<Hyphen>>
                      \o ZeroPad(t.day, 2) \o <<LetterT>> \o ZeroPad(t.hour, 2) \o <<Colon>>
                      \o ZeroPad(t.minute, 2) \o <<Colon, Zero, Zero, LetterZ>>
  /\ abortedAt = "row" =>
       CellOf(lines[pos], "Number of Form Submissions") \notin {None, <<>>}

\* the cell "2024-3-5 4:5" and the date made of it
LooseDate == Text(<<"2", "0", "2", "4", "-", "3", "-", "5", " ", "4", ":", "5">>)
LooseDateIso ==
  Text(<<"2", "0", "2", "4", "-", "0", "3", "-", "0", "5", "T", "0", "4", ":", "0", "5", ":",
         "0", "0", "Z">>)

\* a record whose date came from a cell with a one-digit month, day, hour
\* and minute
C5_Witness ==
  /\ pc = "done"
  /\ \E rl \in RecordLines :
       /\ CellOf(rl[2], "Create Date") = LooseDate
       /\ rl[1].createDate = LooseDateIso

\* where the digits of a cell start: after its minus sign, if it has one
NumeralStart(cell) == IF At(cell, 1) = Hyphen THEN 2 ELSE 1

\* the indexes of the points of a cell
Points(cell) == {i \in 1..Len(cell) : cell[i] = Point}

\* the cell is a decimal numeral: an optional minus sign, ASCII digits, and
\* optionally a point and more digits
IsNumeral(cell) ==
  /\ Len(cell) >= NumeralStart(cell)
  /\ Cardinality(Points(cell)) <= 1
  /\ \A i \in NumeralStart(cell)..Len(cell) : cell[i] \in AsciiDigits(0, 9) \cup {Point}
  /\ \A p \in Points(cell) : NumeralStart(cell) < p /\ p < Len(cell)

\* the index of the point of a numeral, the one after its end if it has none
PointAt(cell) == IF Points(cell) = {} THEN Len(cell) + 1 ELSE CHOOSE p \in Points(cell) : TRUE

\* the digits of a numeral before and after its point, and its sign
NumeralInt(cell) == DigitVals(SubSeq(cell, NumeralStart(cell), PointAt(cell) - 1))
NumeralFrac(cell) == DigitVals(SubSeq(cell, PointAt(cell) + 1, Len(cell)))
NumeralNeg(cell) == At(cell, 1) = Hyphen

\* the number of digits of a numeral from its first non-zero digit on
SignificantDigits(cell) == Len(StripLeadingZeros(NumeralInt(cell) \o NumeralFrac(cell)))

\* the value of a numeral truncated toward zero
Truncated(cell) ==
  Bind(StripLeadingZeros(NumeralInt(cell)), LAMBDA t : IF t = <<>> THEN <<0>> ELSE t)

\* v is an int: a sign and decimal digits with no zero in front
IsInteger(v) ==
  /\ DOMAIN v = {"neg", "mag"}
  /\ v.neg \in BOOLEAN
  /\ v.mag \in Seq(0..9) /\ v.mag # <<>>
  /\ v.mag[1] = 0 => (Len(v.mag) = 1 /\ ~v.neg)

\* a + b for two naturals given by their digits
Sum(a, b) ==
  LET n    == Max({Len(a), Len(b)})
      s(i) == (IF i + Len(a) > n THEN a[i + Len(a) - n] ELSE 0)
                + (IF i + Len(b) > n THEN b[i + Len(b) - n] ELSE 0)
      \* the carry out of the digits from place i on
      carry(i) == \E j \in i..n : s(j) >= 10 /\ \A k \in i..(j - 1) : s(k) = 9
      d    == [i \in 1..n |-> (s(i) + (IF carry(i + 1) THEN 1 ELSE 0)) % 10]
  IN  IF carry(1) THEN <<1>> \o d ELSE d

\* r is a double next to the natural t, both of 2^53 or more: r has at most
\* 53 significant bits and lies within half a unit of its last place of t
NearestDoubleOf(r, t) ==
  Bind(ShiftRound(r, FALSE, FALSE, 0), LAMBDA u :
    /\ ~u.half /\ ~u.sticky
    /\ u.s >= 1
    /\ Bind(DoubleTimes(<<1>>, u.s - 1), LAMBDA h :
         ~Less(Sum(t, h), r) /\ ~Less(Sum(r, h), t)))

\* C6 as stated: formSubmissions is 0 when the column is absent or the cell
\* empty, and for a decimal numeral it is the value of the numeral truncated
\* toward zero.
C6_ExactTruncation ==
  \A rl \in RecordLines :
    LET cell == CellOf(rl[2], "Number of Form Submissions")
    IN  /\ cell \in {None, <<>>} => rl[1].formSubmissions = Integer(FALSE, <<0>>)
        /\ (cell # None /\ IsNumeral(cell)) =>
             rl[1].formSubmissions = Integer(NumeralNeg(cell), Truncated(cell))

\* 2^970 and 2^1024
TwoTo970 == DoubleTimes(<<1>>, 970)
TwoTo1024 == DoubleTimes(TwoTo970, 54)

\* the natural t is 2^1024 - 2^970 or more (a natural of fewer than 309
\* digits is less): a numeral of that value is nearer to 2^1024 than to any
\* double, and float() gives infinity for it
PastDoubles(t) == Len(t) >= 309 /\ ~Less(Sum(t, TwoTo970), TwoTo1024)

\* C6 amended: formSubmissions is an integer, 0 when the column is absent or
\* the cell empty; for a decimal numeral below 2^1024 - 2^970 it is the
\* integer part of the double nearest to the numeral.  For a numeral of at
\* most 15 significant digits that is the value of the numeral truncated
\* toward zero; for a longer numeral below 2^53 it is the truncated value or
\* the next integer away from zero; from 2^53 on it is the nearest double
\* itself, an integer of at most 53 significant bits within half a unit of
\* its last place of the numeral.  A numeral of 2^1024 - 2^970 or more gives
\* no record: its row, and no row of a numeral below that, ends the run with
\* OverflowError.
C6_TruncationOfDouble ==
  /\ \A rl \in RecordLines :
       LET cell == CellOf(rl[2], "Number of Form Submissions")
           v    == rl[1].formSubmissions
       IN  /\ IsInteger(v)
           /\ cell \in {None, <<>>} => v = Integer(FALSE, <<0>>)
           /\ (cell # None /\ IsNumeral(cell)) =>
                Bind(Truncated(cell), LAMBDA t :
                  /\ ~PastDoubles(t)
                  /\ SignificantDigits(cell) <= 15 => v = Integer(NumeralNeg(cell), t)
                  /\ Less(t, Pow2[53]) =>
                       v \in {Integer(NumeralNeg(cell), t), Integer(NumeralNeg(cell), Inc(t))}
                  /\ ~Less(t, Pow2[53]) =>
                       v.neg = NumeralNeg(cell) /\ NearestDoubleOf(v.mag, t))
  /\ \A i \in 1..Len(ConsumedRows) :
       LET cell == CellOf(ConsumedRows[i], "Number of Form Submissions")
       IN  (cell # None /\ IsNumeral(cell)) =>
             /\ PastDoubles(Truncated(cell)) <=> i > Len(data)
             /\ i > Len(data) =>
                  pc = "aborted" /\ abortedAt = "row" /\ err = "OverflowError"

\* a run that made records of "0.99999999999999999", which rounds up to 1,
\* and of "9007199254740993", which rounds down to 2^53, and that the numeral
\* of 10^309 in the third row ended
C6_Witness ==
  /\ pc = "aborted" /\ abortedAt = "row" /\ err = "OverflowError"
  /\ Len(lines) = 3 /\ pos = 3 /\ Len(data) = 2
  /\ \A i \in 1..3 :
       CellOf(lines[i], "Number of Form Submissions")
         = RoundedRows[i]["Number of Form Submissions"]
  /\ data[1].formSubmissions = Integer(FALSE, <<1>>)
  /\ data[2].formSubmissions = Integer(FALSE, Pow2[53])

\* C7 as stated: every record has the same set of field names, and the set
\* has 17 names.
C7_SeventeenFields ==
  \A i, j \in 1..Len(data) :
    DOMAIN data[i] = DOMAIN data[j] /\ Cardinality(DOMAIN data[i]) = 17

\* C7 amended: every record has the same set of field names, whatever the
\* columns and cells of its row, and the set has 18 names: the 15 plain
\* string fields, createDate, isComplete and formSubmissions.
C7_EighteenFields ==
  \A i, j \in 1..Len(data) :
    /\ DOMAIN data[i] = DOMAIN data[j]
    /\ Cardinality(DOMAIN data[i]) = 18
    /\ DOMAIN data[i] = DOMAIN KeyColumn \cup {"createDate", "isComplete", "formSubmissions"}

\* records of a full row with a date and of a short line without one, under
\* a header that lacks no column
C7_Witness ==
  /\ pc = "done"
  /\ fieldnames = FullHeader
  /\ \E i, j \in 1..Len(data) :
       /\ data[i].createDate # <<>> /\ Len(ConsumedRows[i]) = Len(FullHeader)
       /\ data[j].createDate = <<>> /\ Len(ConsumedRows[j]) < Len(FullHeader)

\* C8: a second run on the same input ends as the first one did, completed
\* or aborted with the same exception at the same statement, and when it
\* completes it leaves the output file and the notice of the first run,
\* whatever the output file held before either run.
C8_Deterministic ==
  (run > 1 /\ pc \in {"done", "aborted"}) =>
    /\ prev.pc = pc /\ prev.err = err /\ prev.abortedAt = abortedAt
    /\ pc = "done" => (outFile = prev.outFile /\ stdout = prev.stdout)

\* a second run completed over the output of the first, with records in it
C8_Witness ==
  /\ run = 2 /\ pc = "done" /\ prev.pc = "done"
  /\ Len(data) >= 2
  /\ outAtStart = prev.outFile /\ outAtStart.text # EmptyList

\* a non-empty cell that int(float()) rejects
BadCount(cell) == cell \notin {None, <<>>} /\ ~IntOfFloatStr(cell).ok

\* C9: a run that aborts opening the input or on a row (or in the reader)
\* stops there: the row it stopped at is one whose "Number of Form
\* Submissions" cell is non-empty and no numeral, data holds the records of
\* the rows before it and nothing more is consumed, the output file is as it
\* was before the run and was never opened, and nothing is printed; and a
\* run completes only if the input exists and no row has such a cell.
C9_AbortLeavesOutput ==
  /\ [](/\ (pc = "aborted" /\ abortedAt \in {"open input", "row", "reader"}) =>
              /\ outFile = outAtStart /\ ~outOpen /\ ~inOpen /\ stdout = <<>>
              /\ abortedAt = "open input" => (~csvExists /\ data = <<>>)
              /\ abortedAt = "row" =>
                   /\ BadCount(CellOf(lines[pos], "Number of Form Submissions"))
                   /\ Len(data) = Len(ConsumedRows) - 1
                   /\ \A i \in 1..(pos - 1) :
                        ~BadCount(CellOf(lines[i], "Number of Form Submissions"))
        /\ pc = "done" =>
              /\ csvExists
              /\ \A i \in 1..Len(lines) :
                   lines[i] = <<>> \/ ~BadCount(CellOf(lines[i], "Number of Form Submissions")))
  /\ [][(pc = "aborted" /\ run' = run) => UNCHANGED vars]_vars

\* a run aborted on the second of three rows, over a stale output file
C9_Witness ==
  /\ pc = "aborted" /\ abortedAt = "row"
  /\ Len(lines) = 3 /\ pos = 2 /\ Len(data) = 1
  /\ outFile = [exists |-> TRUE, text |-> Stale]

\* the place of each position of the script in the order of its phases
Rank(p) ==
  CASE p = "start" -> 0 [] p = "reading" -> 1 [] p = "read" -> 2 [] p = "out open" -> 3
    [] p = "dumped" -> 4 [] p = "printed" -> 5 [] p = "done" -> 6 [] p = "aborted" -> 7

\* C10: the phases of a run come in one order and none comes twice: the
\* input is open exactly while the rows are read, every step of the reading
\* consumes lines further down and adds one record, the output is opened
\* only after the input is closed and every line consumed, the notice is
\* printed at most once and only after the dump, by when json_file has been
\* given the whole text of the list in one piece, part of it in the file and
\* the rest in its buffers until it is closed, and a completed run leaves
\* the file with that text; and every run ends, completed or aborted.
C10_PhaseOrder ==
  /\ [](/\ inOpen <=> pc = "reading"
        /\ outOpen <=> pc \in {"out open", "dumped", "printed"}
        /\ outOpen => pos = Len(lines)
        /\ Len(stdout) <= 1
        /\ stdout # <<>> <=> pc \in {"printed", "done"}
        /\ pc \in {"dumped", "printed"} => outFile.text \o outBuf = JsonDump(data)
        /\ pc = "done" => outFile.text = JsonDump(data)
        /\ outBuf # <<>> => pc \in {"dumped", "printed"})
  /\ [][run' = run =>
          /\ Rank(pc') >= Rank(pc)
          /\ Rank(pc') = Rank(pc) =>
               (pc = "reading" /\ pos' > pos /\ Len(data') = Len(data) + 1)
          /\ pc' \notin {pc, "aborted"} => Rank(pc') = Rank(pc) + 1]_vars
  /\ (pc = "start") ~> (pc \in {"done", "aborted"})

\* a completed run over three rows
C10_Witness ==
  /\ pc = "done" /\ Len(data) = 3 /\ stdout = <<Notice>>
  /\ ~inOpen /\ ~outOpen

====
